---- MODULE Spec2Model ----
(***************************************************************************)
(* Airalo end-to-end and API test suite.                                   *)
(*                                                                         *)
(*  - the web scenario 'Search and verify package details for Japan eSIM'  *)
(*    with the HomePage page object and its soft-assertion bookkeeping;    *)
(*  - the two API suites (order submission, eSIM listing): beforeAll,      *)
(*    the cases, afterAll.                                                 *)
(*                                                                         *)
(* Texts are TLA+ strings; a character of a text is SubSeq(s, i, i).       *)
(* A nullable JavaScript string is a record [t, s]: t = "null" or          *)
(* t = "string" with s the text; t = "undefined" is a variable that has    *)
(* not been assigned yet.                                                  *)
(***************************************************************************)
EXTENDS Integers, Sequences, FiniteSets, TLC

VARIABLES
    \* ---- web scenario ----
    wpc,              \* position in the test body
    isHeadless,       \* browser option read at the start of the test
    calls,            \* driver calls issued so far, in order
    content,          \* textContent() the driver returned for each field
    title, coverage, data, validity, price,   \* the five field values
    assertionErrors,  \* the test's own array of failure entries
    evaluated,        \* the field checks whose expect() has been evaluated
    thrown,           \* errors that left the test body, in order
    homePage,         \* describe-level homePage: 0, or the run whose page it wraps
    describeAssertionErrors,  \* describe-level array of the same name
    run,              \* number of this invocation of the test
    \* ---- API suites ----
    suite,            \* which spec file this worker runs
    apc,              \* position of the worker: hooks and cases
    caseNo,           \* number, in file order, of the next case to run
    request,          \* the APIRequestContext variable of the describe block
    token,            \* the token variable of the describe block
    issued,           \* access_token of the token-exchange response
    response,         \* the response the last request received
    requests,         \* HTTP requests issued so far, in order
    expects,          \* expect() calls evaluated by the cases, in order
    caseResult,       \* outcome of every case run so far
    hookErrors,       \* errors raised by beforeAll / afterAll
    \* ---- both ----
    events            \* when each awaited call was issued and when it settled

webVars == <<wpc, isHeadless, calls, content, title, coverage, data, validity, price,
             assertionErrors, evaluated, thrown,
             homePage, describeAssertionErrors, run>>
apiVars == <<suite, apc, caseNo, request, token, issued, response, requests,
             expects, caseResult, hookErrors>>
vars == <<webVars, apiVars, events>>

(***************************************************************************)
(* JavaScript values and string primitives                                 *)
(***************************************************************************)
JsNull == [t |-> "null", s |-> ""]
JsUndefined == [t |-> "undefined", s |-> ""]
JsStr(str) == [t |-> "string", s |-> str]

\* String(v) as a template literal renders it
TemplateString(v) == IF v.t = "string" THEN v.s ELSE v.t

\* truthiness of a nullable string: null and "" are falsy
Truthy(v) == v.t = "string" /\ v.s # ""

CharAt(str, i) == SubSeq(str, i, i)

\* the characters the regular-expression class \s matches in the modelled texts
WhiteSpace == {" ", "\n", "\t"}
\* \d
Digits == {"0", "1", "2", "3", "4", "5", "6", "7", "8", "9"}
\* \w
WordChars == Digits \cup {"_"} \cup
    {"a", "b", "c", "d", "e", "f", "g", "h", "i", "j", "k", "l", "m",
     "n", "o", "p", "q", "r", "s", "t", "u", "v", "w", "x", "y", "z",
     "A", "B", "C", "D", "E", "F", "G", "H", "I", "J", "K", "L", "M",
     "N", "O", "P", "Q", "R", "S", "T", "U", "V", "W", "X", "Y", "Z"}

\* length of the longest prefix of str made of characters of class
RECURSIVE PrefixLen(_, _)
PrefixLen(str, class) ==
    IF str = "" \/ CharAt(str, 1) \notin class THEN 0
    ELSE 1 + PrefixLen(SubSeq(str, 2, Len(str)), class)

\* length of the longest suffix of str made of characters of class
RECURSIVE SuffixLen(_, _)
SuffixLen(str, class) ==
    IF str = "" \/ CharAt(str, Len(str)) \notin class THEN 0
    ELSE 1 + SuffixLen(SubSeq(str, 1, Len(str) - 1), class)

AllIn(str, class) == \A i \in 1..Len(str) : CharAt(str, i) \in class

\* String.prototype.trim
Trim(str) ==
    LET a == PrefixLen(str, WhiteSpace)
        b == SuffixLen(str, WhiteSpace)
    IN  IF a = Len(str) THEN "" ELSE SubSeq(str, a + 1, Len(str) - b)

\* str.replace(/\s+/g, ''): every whitespace character is removed
RECURSIVE RemoveWhiteSpace(_)
RemoveWhiteSpace(str) ==
    IF str = "" THEN ""
    ELSE LET rest == RemoveWhiteSpace(SubSeq(str, 2, Len(str)))
         IN  IF CharAt(str, 1) \in WhiteSpace THEN rest
             ELSE CharAt(str, 1) \o rest

\* index of the first occurrence of pat in str, 0 when there is none
IndexOf(str, pat) ==
    LET hits == {i \in 1..(Len(str) - Len(pat) + 1) :
                    SubSeq(str, i, i + Len(pat) - 1) = pat}
    IN  IF hits = {} THEN 0
        ELSE CHOOSE i \in hits : \A j \in hits : i <= j

\* str.replace(pat, '') with a string pattern: the first occurrence only
RemoveFirst(str, pat) ==
    LET i == IndexOf(str, pat)
    IN  IF i = 0 THEN str
        ELSE SubSeq(str, 1, i - 1) \o SubSeq(str, i + Len(pat), Len(str))

\* str.replace(/^\s*(\d+)\s*(\w+)\s*$/, "$1 $2"); an input the pattern does
\* not match is returned unchanged.  \d+ is greedy and gives back its last
\* digit when nothing is left for \w+.
NumberUnit(str) ==
    LET core == Trim(str)
        nd   == PrefixLen(core, Digits)
        rest == SubSeq(core, nd + 1, Len(core))
        unit == SubSeq(rest, PrefixLen(rest, WhiteSpace) + 1, Len(rest))
    IN  IF nd = 0 THEN str
        ELSE IF unit # "" /\ AllIn(unit, WordChars)
             THEN SubSeq(core, 1, nd) \o " " \o unit
        ELSE IF rest = "" /\ nd >= 2
             THEN SubSeq(core, 1, nd - 1) \o " " \o CharAt(core, nd)
        ELSE str

\* Array.prototype.join
RECURSIVE Join(_, _)
Join(seq, sep) ==
    IF seq = <<>> THEN ""
    ELSE IF Len(seq) = 1 THEN seq[1]
    ELSE seq[1] \o sep \o Join(Tail(seq), sep)

(***************************************************************************)
(* HomePage: the text each field getter returns for a textContent() value  *)
(***************************************************************************)
DomNull == [t |-> "null", s |-> ""]
DomText(str) == [t |-> "string", s |-> str]
NotRead == [t |-> "undefined", s |-> ""]

\* a getPackageTitle that trims the text
TitleTextTrimmed(c) == JsStr(Trim(c.s))

\* getPackageTitle returns textContent() as it is
TitleText(c) == c

\* getPackageCoverage: content ? content.replace(/\s+/g, '') : ''
CoverageText(c) ==
    IF Truthy(c) THEN JsStr(RemoveWhiteSpace(c.s)) ELSE JsStr("")

\* a getPackageData that only trims the text
DataTextTrimmed(c) == JsStr(Trim(c.s))

\* getPackageData / getPackageValidity: content.replace(..., "$1 $2"),
\* defined for a string only (see CanReplace)
DataText(c) == JsStr(NumberUnit(c.s))

ValidityText(c) == JsStr(NumberUnit(c.s))

\* getPackagePrice: (content ? content.replace(/\s+/g, '') : '')
\*                      .replace("USD", "").trim()
PriceText(c) ==
    LET priceText == IF Truthy(c) THEN RemoveWhiteSpace(c.s) ELSE ""
    IN  JsStr(Trim(RemoveFirst(priceText, "USD")))

\* calling .replace on null raises a TypeError
CanReplace(c) == c.t = "string"

(***************************************************************************)
(* What the browser driver may return for the five elements                *)
(***************************************************************************)
TitleContents ==
    {DomNull, DomText(""), DomText("Moshi Moshi"), DomText(" Moshi Moshi"),
     DomText("Moshi Moshi Plus")}
CoverageContents ==
    {DomNull, DomText(""), DomText("Japan"), DomText(" Japan\n"),
     DomText("Japan and Korea")}
DataContents ==
    {DomNull, DomText(""), DomText("1 GB"), DomText("\n 1  GB "),
     DomText("1GB"), DomText("11 GB"), DomText("1 GB / day")}
ValidityContents ==
    {DomNull, DomText(""), DomText("7 Days"), DomText("7Days\n"),
     DomText("17 Days")}
PriceContents ==
    {DomNull, DomText(""), DomText("$4.50 USD"), DomText(" $4.50  USD\n"),
     DomText("$14.50 USD"), DomText("$4.50 USD USD")}

Fields == <<"title", "coverage", "data", "validity", "price">>

(***************************************************************************)
(* The web scenario                                                        *)
(***************************************************************************)
InitWeb ==
    /\ wpc = "goto"
    /\ isHeadless \in BOOLEAN
    /\ calls = <<>>
    /\ content = [f \in {Fields[i] : i \in 1..Len(Fields)} |-> NotRead]
    /\ title = JsUndefined
    /\ coverage = JsUndefined
    /\ data = JsUndefined
    /\ validity = JsUndefined
    /\ price = JsUndefined
    /\ assertionErrors = <<>>
    /\ evaluated = <<>>
    /\ thrown = <<>>
    /\ homePage = 0
    /\ describeAssertionErrors = <<>>
    /\ run = 1
    \* no API worker runs in this process
    /\ suite = "orders"
    /\ apc = "idle"
    /\ caseNo = 1
    /\ request = "undefined"
    /\ token = "undefined"
    /\ issued = "undefined"
    /\ response = [arrived |-> FALSE]
    /\ requests = <<>>
    /\ expects = <<>>
    /\ caseResult = <<>>
    /\ hookErrors = <<>>
    /\ events = <<>>

fieldVars == <<content, title, coverage, data, validity, price>>

\* what the describe block declares, and the count of invocations
describeVars == <<describeAssertionErrors, run>>

\* await op(): op is issued, and the statement after the await starts only
\* when op has settled (resolved, or rejected: the await throws)
Issue(op) == [ev |-> "issue", op |-> op]
Resolve(op) == [ev |-> "resolve", op |-> op]
Reject(op) == [ev |-> "reject", op |-> op]

\* await of each of ops in turn, all resolving
RECURSIVE Awaited(_)
Awaited(ops) ==
    IF ops = <<>> THEN <<>>
    ELSE <<Issue(Head(ops)), Resolve(Head(ops))>> \o Awaited(Tail(ops))

\* an error leaves the test body: the runner ends the test as failed
Raise(kind, message) ==
    /\ thrown' = Append(thrown, [kind |-> kind, at |-> wpc, message |-> message])
    /\ wpc' = "failed"

\* a page-object method that starts its calls without awaiting each of them
PageMethodNotAwaiting(here, next, steps) ==
    /\ wpc = here
    /\ \E k \in 0..Len(steps) :
          IF k = Len(steps)
          THEN /\ calls' = calls \o steps
               /\ events' = events \o [i \in 1..Len(steps) |-> Issue(steps[i])]
                                   \o [i \in 1..Len(steps) |-> Resolve(steps[i])]
               /\ wpc' = next
               /\ UNCHANGED thrown
          ELSE /\ calls' = calls \o SubSeq(steps, 1, k + 1)
               /\ events' = events \o Awaited(SubSeq(steps, 1, k))
                                \o <<Issue(steps[k + 1]), Reject(steps[k + 1])>>
               /\ Raise("TimeoutError", steps[k + 1])
    /\ UNCHANGED <<isHeadless, fieldVars, assertionErrors, evaluated, homePage,
                   describeVars, apiVars>>

\* a page-object method that issues a call that timed out a second time
PageMethodRetrying(here, next, steps) ==
    /\ wpc = here
    /\ \E k \in 0..Len(steps) :
          IF k = Len(steps)
          THEN /\ calls' = calls \o steps
               /\ events' = events \o Awaited(steps)
               /\ wpc' = next
               /\ UNCHANGED thrown
          ELSE /\ calls' = calls \o SubSeq(steps, 1, k + 1) \o <<steps[k + 1]>>
               /\ events' = events \o Awaited(SubSeq(steps, 1, k))
                                \o <<Issue(steps[k + 1]), Reject(steps[k + 1]),
                                     Issue(steps[k + 1]), Reject(steps[k + 1])>>
               /\ Raise("TimeoutError", steps[k + 1])
    /\ UNCHANGED <<isHeadless, fieldVars, assertionErrors, evaluated, homePage,
                   describeVars, apiVars>>

\* A page-object method that awaits the driver calls of steps one after the
\* other: the first k complete, and when k < Len(steps) call k+1 times out
\* and the rejection propagates through the method to the test body.
PageMethod(here, next, steps) ==
    /\ wpc = here
    /\ \E k \in 0..Len(steps) :
          IF k = Len(steps)
          THEN /\ calls' = calls \o steps
               /\ events' = events \o Awaited(steps)
               /\ wpc' = next
               /\ UNCHANGED thrown
          ELSE /\ calls' = calls \o SubSeq(steps, 1, k + 1)
               /\ events' = events \o Awaited(SubSeq(steps, 1, k))
                                \o <<Issue(steps[k + 1]), Reject(steps[k + 1])>>
               /\ Raise("TimeoutError", steps[k + 1])
    /\ UNCHANGED <<isHeadless, fieldVars, assertionErrors, evaluated, homePage,
                   describeVars, apiVars>>

\* await page.goto('/'); homePage = new HomePage(page)
goto ==
    /\ wpc = "goto"
    /\ calls' = Append(calls, "goto /")
    /\ \/ /\ events' = events \o Awaited(<<"goto /">>)
          /\ wpc' = "acceptPrivacy"
          /\ homePage' = run
          /\ UNCHANGED thrown
       \/ /\ events' = events \o <<Issue("goto /"), Reject("goto /")>>
          /\ Raise("TimeoutError", "goto /")
          /\ UNCHANGED homePage
    /\ UNCHANGED <<isHeadless, fieldVars, assertionErrors, evaluated,
                   describeVars, apiVars>>

\* acceptPrivacy followed by the notification step in headless mode only
acceptPrivacyInverted ==
    PageMethod("acceptPrivacy",
               IF isHeadless THEN "allowNotifications" ELSE "changeCurrency",
               <<"click button ACCEPT">>)

acceptPrivacy ==
    PageMethod("acceptPrivacy",
               IF ~isHeadless THEN "allowNotifications" ELSE "changeCurrency",
               <<"click button ACCEPT">>)

allowNotifications ==
    PageMethod("allowNotifications", "changeCurrency",
               <<"waitForSelector wzrk-confirm", "click button ALLOW">>)

\* a changeCurrency that confirms before it selects
changeCurrencyUpdateFirst ==
    PageMethod("changeCurrency", "countrySelection",
               <<"click EUR-header-language", "click UPDATE-button",
                 "click USD-currency-select">>)

changeCurrency ==
    PageMethod("changeCurrency", "countrySelection",
               <<"click EUR-header-language", "click USD-currency-select",
                 "click UPDATE-button">>)

countrySelection ==
    PageMethod("countrySelection", "eSimSelectionPackage",
               <<"click search-input", "fill search-input",
                 "click li country">>)

eSimSelectionPackage ==
    PageMethod("eSimSelectionPackage", "getPackageTitle",
               <<"click link Moshi Moshi">>)

\* a getter call whose timeout is caught and recorded as a soft failure
TimesOutCaught(step) ==
    /\ calls' = Append(calls, step)
    /\ events' = events \o <<Issue(step), Reject(step)>>
    /\ assertionErrors' = Append(assertionErrors, step)
    /\ wpc' = "finalize"
    /\ UNCHANGED <<isHeadless, fieldVars, evaluated, thrown, homePage,
                   describeVars, apiVars>>

\* The driver call of a field getter: textContent() of the located element
\* times out (no such element) or returns one of contents.
TimesOut(step) ==
    /\ calls' = Append(calls, step)
    /\ events' = events \o <<Issue(step), Reject(step)>>
    /\ Raise("TimeoutError", step)
    /\ UNCHANGED <<isHeadless, fieldVars, assertionErrors, evaluated, homePage,
                   describeVars, apiVars>>

Returns(step, field, c, next) ==
    /\ calls' = Append(calls, step)
    /\ content' = [content EXCEPT ![field] = c]
    /\ events' = events \o Awaited(<<step>>)
    /\ wpc' = next
    /\ UNCHANGED <<isHeadless, assertionErrors, evaluated, thrown, homePage,
                   describeVars, apiVars>>

\* the getter's own statement raised on the content the driver returned
Throws(step, field, c, message) ==
    /\ calls' = Append(calls, step)
    /\ content' = [content EXCEPT ![field] = c]
    /\ events' = events \o Awaited(<<step>>)
    /\ Raise("TypeError", message)
    /\ UNCHANGED <<isHeadless, assertionErrors, evaluated, homePage,
                   describeVars, apiVars>>

getPackageTitle ==
    /\ wpc = "getPackageTitle"
    /\ \/ TimesOut("textContent Moshi Moshi")
       \/ \E c \in TitleContents :
             /\ Returns("textContent Moshi Moshi", "title", c, "getPackageCoverage")
             /\ title' = TitleText(c)
             /\ UNCHANGED <<coverage, data, validity, price>>

getPackageCoverage ==
    /\ wpc = "getPackageCoverage"
    /\ \/ TimesOut("textContent Japan")
       \/ \E c \in CoverageContents :
             /\ Returns("textContent Japan", "coverage", c, "getPackageData")
             /\ coverage' = CoverageText(c)
             /\ UNCHANGED <<title, data, validity, price>>

getPackageData ==
    /\ wpc = "getPackageData"
    /\ \/ TimesOut("textContent 1 GB")
       \/ \E c \in DataContents :
             IF CanReplace(c)
             THEN /\ Returns("textContent 1 GB", "data", c, "getPackageValidity")
                  /\ data' = DataText(c)
                  /\ UNCHANGED <<title, coverage, validity, price>>
             ELSE /\ Throws("textContent 1 GB", "data", c,
                            "Cannot read properties of null (reading 'replace')")
                  /\ UNCHANGED <<title, coverage, data, validity, price>>

getPackageValidity ==
    /\ wpc = "getPackageValidity"
    /\ \/ TimesOut("textContent 7 Days")
       \/ \E c \in ValidityContents :
             IF CanReplace(c)
             THEN /\ Returns("textContent 7 Days", "validity", c, "getPackagePrice")
                  /\ validity' = ValidityText(c)
                  /\ UNCHANGED <<title, coverage, data, price>>
             ELSE /\ Throws("textContent 7 Days", "validity", c,
                            "Cannot read properties of null (reading 'replace')")
                  /\ UNCHANGED <<title, coverage, data, validity, price>>

getPackagePrice ==
    /\ wpc = "getPackagePrice"
    /\ \/ TimesOut("textContent $4.50 USD")
       \/ \E c \in PriceContents :
             /\ Returns("textContent $4.50 USD", "price", c, "checkTitle")
             /\ price' = PriceText(c)
             /\ UNCHANGED <<title, coverage, data, validity>>

\* SoftCheck without the try/catch: the AssertionError of a mismatch leaves
\* the test body at once
SoftCheckHard(here, next, field, actual, expected, entry) ==
    /\ wpc = here
    /\ evaluated' = Append(evaluated, field)
    /\ IF actual = JsStr(expected)
       THEN wpc' = next /\ UNCHANGED thrown
       ELSE Raise("AssertionError", entry)
    /\ UNCHANGED <<isHeadless, calls, fieldVars, assertionErrors, homePage,
                   describeVars, apiVars, events>>

\* SoftCheck with assertionErrors.unshift(entry) in place of push
SoftCheckUnshift(here, next, field, actual, expected, entry) ==
    /\ wpc = here
    /\ evaluated' = Append(evaluated, field)
    /\ assertionErrors' = IF actual = JsStr(expected) THEN assertionErrors
                          ELSE <<entry>> \o assertionErrors
    /\ wpc' = next
    /\ UNCHANGED <<isHeadless, calls, fieldVars, thrown, homePage,
                   describeVars, apiVars, events>>

\* try { expect(actual).toBe(expected) } catch (error) { assertionErrors.push(entry) }
\* toBe compares with Object.is; the AssertionError it throws is caught.
SoftCheck(here, next, field, actual, expected, entry) ==
    /\ wpc = here
    /\ evaluated' = Append(evaluated, field)
    /\ assertionErrors' = IF actual = JsStr(expected) THEN assertionErrors
                          ELSE Append(assertionErrors, entry)
    /\ wpc' = next
    /\ UNCHANGED <<isHeadless, calls, fieldVars, thrown, homePage,
                   describeVars, apiVars, events>>

CheckTitle ==
    SoftCheck("checkTitle", "checkCoverage", "title", title, "Moshi Moshi",
        "Package Title  Assertion Failed: Actual Field is \""
            \o TemplateString(title)
            \o "\" and Expected Field is \"Moshi Moshi\"")

CheckCoverage ==
    SoftCheck("checkCoverage", "checkData", "coverage", coverage, "Japan",
        "Package Coverage Assertion Failed: Actual Field is \""
            \o TemplateString(coverage)
            \o "\" and Expected Field is \"Japan\"")

CheckData ==
    SoftCheck("checkData", "checkValidity", "data", data, "1 GB",
        "Package Data Assertion Failed: Actual Field is \""
            \o TemplateString(data)
            \o "\" and Expected Field is \"1 GB\"")

CheckValidity ==
    SoftCheck("checkValidity", "checkPrice", "validity", validity, "7 Days",
        "Package Validity Assertion Failed: Actual Field is \""
            \o TemplateString(validity)
            \o "\" and Expected Field is \"7 Days\"")

\* CheckPrice comparing with the text before the currency code is removed
CheckPriceWithUnit ==
    SoftCheck("checkPrice", "finalize", "price", price, "$4.50 USD",
        "Package Price Assertion Failed: Actual Field is \""
            \o TemplateString(price)
            \o "\" and Expected Field is \"$4.50 USD\"")

CheckPrice ==
    SoftCheck("checkPrice", "finalize", "price", price, "$4.50",
        "Package Price Assertion Failed: Actual Field is \""
            \o TemplateString(price)
            \o "\" and Expected Field is \"$4.50\"")

\* ReportMessage reporting the first entry only
ReportFirstOnly(errors) == "Soft Assertion Failures:\n" \o errors[1]

\* ReportMessage joining the entries with a comma
ReportMessageComma(errors) == "Soft Assertion Failures:\n" \o Join(errors, ", ")

\* the message of the Error thrown at the end of the test
ReportMessage(errors) == "Soft Assertion Failures:\n" \o Join(errors, "\n")

\* Finalize with the test assertionErrors.length > 1
FinalizeOffByOne ==
    /\ wpc = "finalize"
    /\ IF Len(assertionErrors) > 1
       THEN Raise("Error", "Soft Assertion Failures:\n" \o Join(assertionErrors, "\n"))
       ELSE wpc' = "passed" /\ UNCHANGED thrown
    /\ UNCHANGED <<isHeadless, calls, fieldVars, assertionErrors, evaluated,
                   homePage, describeVars, apiVars, events>>

\* if (assertionErrors.length > 0) throw new Error(...); otherwise the test
\* body returns and the run passes
Finalize ==
    /\ wpc = "finalize"
    /\ IF Len(assertionErrors) > 0
       THEN Raise("Error", ReportMessage(assertionErrors))
       ELSE wpc' = "passed" /\ UNCHANGED thrown
    /\ UNCHANGED <<isHeadless, calls, fieldVars, assertionErrors, evaluated,
                   homePage, describeVars, apiVars, events>>

MaxRuns == 2

\* a further invocation of the test whose declarations kept the entries
RunAgainKeepingErrors ==
    /\ wpc \in {"passed", "failed"}
    /\ run < MaxRuns
    /\ run' = run + 1
    /\ wpc' = "goto"
    /\ calls' = <<>>
    /\ content' = [f \in {Fields[i] : i \in 1..Len(Fields)} |-> NotRead]
    /\ title' = JsUndefined
    /\ coverage' = JsUndefined
    /\ data' = JsUndefined
    /\ validity' = JsUndefined
    /\ price' = JsUndefined
    /\ evaluated' = <<>>
    /\ thrown' = <<>>
    /\ IF wpc = "failed" THEN homePage' = 0 ELSE UNCHANGED homePage
    /\ events' = <<>>
    /\ UNCHANGED <<isHeadless, assertionErrors, describeAssertionErrors, apiVars>>

\* The runner invokes the test function again (a retry of a failed run, a
\* repetition of a passed one) with a new page: the declarations of the body
\* are evaluated anew, const assertionErrors = [] among them.  A failed run's
\* worker is discarded and the describe block evaluated again in a new one;
\* a passed run's worker, with its describe-level variables, is kept.
RunAgain ==
    /\ wpc \in {"passed", "failed"}
    /\ run < MaxRuns
    /\ run' = run + 1
    /\ wpc' = "goto"
    /\ calls' = <<>>
    /\ content' = [f \in {Fields[i] : i \in 1..Len(Fields)} |-> NotRead]
    /\ title' = JsUndefined
    /\ coverage' = JsUndefined
    /\ data' = JsUndefined
    /\ validity' = JsUndefined
    /\ price' = JsUndefined
    /\ assertionErrors' = <<>>
    /\ evaluated' = <<>>
    /\ thrown' = <<>>
    /\ IF wpc = "failed"
       THEN homePage' = 0 /\ describeAssertionErrors' = <<>>
       ELSE UNCHANGED <<homePage, describeAssertionErrors>>
    /\ events' = <<>>
    /\ UNCHANGED <<isHeadless, apiVars>>

NextWeb ==
    \/ RunAgain
    \/ goto
    \/ acceptPrivacy
    \/ allowNotifications
    \/ changeCurrency
    \/ countrySelection
    \/ eSimSelectionPackage
    \/ getPackageTitle
    \/ getPackageCoverage
    \/ getPackageData
    \/ getPackageValidity
    \/ getPackagePrice
    \/ CheckTitle
    \/ CheckCoverage
    \/ CheckData
    \/ CheckValidity
    \/ CheckPrice
    \/ Finalize

(***************************************************************************)
(* The API suites.  One behaviour is the life of one worker on one spec    *)
(* file: beforeAll, the cases in file order from caseNo on, afterAll.  A   *)
(* failing beforeAll skips the cases; a failing case ends the worker's     *)
(* cases (the runner gives the remaining ones to a fresh worker, which     *)
(* starts again at beforeAll with fresh module variables); afterAll runs   *)
(* in either event.                                                        *)
(***************************************************************************)
Undefined == "undefined"

OrderCases == <<"submit 200", "unauthenticated 401", "malformed 422",
                "mandatory 422", "quantity 422">>
SimsCases == <<"valid 200", "include order", "include order.user",
               "include order.status", "limit", "page", "created date",
               "iccid", "malformed limit 422">>
CasesOf(s) == IF s = "orders" THEN OrderCases ELSE SimsCases

NoResponse == [arrived |-> FALSE]

InitApi ==
    /\ suite \in {"orders", "sims"}
    /\ apc = "beforeAll"
    /\ caseNo \in 1..Len(CasesOf(suite))
    /\ request = Undefined
    /\ token = Undefined
    /\ issued = Undefined
    /\ response = NoResponse
    /\ requests = <<>>
    /\ expects = <<>>
    /\ caseResult = <<>>
    /\ hookErrors = <<>>
    /\ events = <<>>
    \* no web scenario runs in this process
    /\ wpc = "idle"
    /\ isHeadless = TRUE
    /\ calls = <<>>
    /\ content = [f \in {Fields[i] : i \in 1..Len(Fields)} |-> NotRead]
    /\ title = JsUndefined
    /\ coverage = JsUndefined
    /\ data = JsUndefined
    /\ validity = JsUndefined
    /\ price = JsUndefined
    /\ assertionErrors = <<>>
    /\ evaluated = <<>>
    /\ thrown = <<>>
    /\ homePage = 0
    /\ describeAssertionErrors = <<>>
    /\ run = 1

\* 'Bearer ' + token
AuthHeader(tok) == "Bearer " \o tok

\* what the token endpoint may answer
TokenResponses ==
    [arrived : {TRUE}, status : {200, 401}, json : BOOLEAN, hasData : BOOLEAN,
     access_token : {"tokA", "tokB", Undefined}]

HookFails(hook, at) ==
    /\ hookErrors' = Append(hookErrors, [hook |-> hook, at |-> at])
    /\ apc' = "afterAll"

\* a beforeAll that stores the token before it verifies the status
BeforeAllStoringFirst ==
    /\ apc = "beforeAll"
    /\ \/ /\ HookFails("beforeAll", "newContext")
          /\ UNCHANGED <<request, token, issued, response, requests, expects,
                         events>>
       \/ /\ request' = "open"
          /\ requests' = Append(requests,
                [method |-> "POST", url |-> "token", auth |-> "none"])
          /\ \/ /\ events' = events \o <<Issue("POST token"), Reject("POST token")>>
                /\ HookFails("beforeAll", "request.post")
                /\ UNCHANGED <<token, issued, response, expects>>
             \/ \E r \in TokenResponses :
                   /\ events' = events \o Awaited(<<"POST token">>)
                   /\ response' = r
                   /\ issued' = IF r.status = 200 /\ r.json /\ r.hasData
                                THEN r.access_token ELSE issued
                   /\ IF ~r.json
                      THEN /\ HookFails("beforeAll", "response.json")
                           /\ UNCHANGED <<token, expects>>
                      ELSE IF ~r.hasData
                      THEN /\ HookFails("beforeAll", "responseBody.data")
                           /\ UNCHANGED <<token, expects>>
                      ELSE /\ token' = r.access_token
                           /\ expects' = Append(expects,
                                 [case |-> "beforeAll", label |-> "status toBe 200",
                                  held |-> r.status = 200])
                           /\ IF r.status # 200
                              THEN HookFails("beforeAll", "expect status")
                              ELSE apc' = "cases" /\ UNCHANGED hookErrors
    /\ UNCHANGED <<suite, caseNo, caseResult, webVars>>

BeforeAll ==
    /\ apc = "beforeAll"
    /\ \/ \* playwright.request.newContext() rejects: request is never assigned
          /\ HookFails("beforeAll", "newContext")
          /\ UNCHANGED <<request, token, issued, response, requests, expects,
                         events>>
       \/ /\ request' = "open"
          /\ requests' = Append(requests,
                [method |-> "POST", url |-> "token", auth |-> "none"])
          /\ \/ /\ events' = events \o <<Issue("POST token"), Reject("POST token")>>
                /\ HookFails("beforeAll", "request.post")
                /\ UNCHANGED <<token, issued, response, expects>>
             \/ \E r \in TokenResponses :
                   /\ events' = events \o Awaited(<<"POST token">>)
                   /\ response' = r
                   /\ issued' = IF r.status = 200 /\ r.json /\ r.hasData
                                THEN r.access_token ELSE issued
                   /\ expects' = Append(expects,
                         [case |-> "beforeAll", label |-> "status toBe 200",
                          held |-> r.status = 200])
                   /\ IF r.status # 200
                      THEN HookFails("beforeAll", "expect status") /\ UNCHANGED token
                      ELSE IF ~r.json
                      THEN HookFails("beforeAll", "response.json") /\ UNCHANGED token
                      ELSE IF ~r.hasData
                      THEN HookFails("beforeAll", "responseBody.data") /\ UNCHANGED token
                      ELSE /\ token' = r.access_token
                           /\ apc' = "cases"
                           /\ UNCHANGED hookErrors
    /\ UNCHANGED <<suite, caseNo, caseResult, webVars>>

\* AfterAll that also resets the token
AfterAllClearingToken ==
    /\ apc = "afterAll"
    /\ IF request = Undefined
       THEN /\ hookErrors' = Append(hookErrors,
                                    [hook |-> "afterAll", at |-> "request.dispose"])
            /\ UNCHANGED request
       ELSE /\ request' = "disposed"
            /\ UNCHANGED hookErrors
    /\ token' = Undefined
    /\ apc' = "done"
    /\ UNCHANGED <<suite, caseNo, issued, response, requests, expects,
                   caseResult, webVars, events>>

\* await request.dispose(): a TypeError when request was never assigned
AfterAll ==
    /\ apc = "afterAll"
    /\ IF request = Undefined
       THEN /\ hookErrors' = Append(hookErrors,
                                    [hook |-> "afterAll", at |-> "request.dispose"])
            /\ UNCHANGED request
       ELSE /\ request' = "disposed"
            /\ UNCHANGED hookErrors
    /\ apc' = "done"
    /\ UNCHANGED <<suite, caseNo, token, issued, response, requests, expects,
                   caseResult, webVars, events>>

(***************************************************************************)
(* Statements of a case body.  expect(v).matcher(...) throws when it does  *)
(* not hold; any other statement throws when it cannot be carried out; a   *)
(* bare expect(v) without a matcher never throws.                          *)
(***************************************************************************)
Expect(label, holds) ==
    [label |-> label, isExpect |-> TRUE, held |-> holds, throws |-> ~holds]
Stmt(label, ok) ==
    [label |-> label, isExpect |-> FALSE, held |-> ok, throws |-> ~ok]
ExpectNoMatcher(label, value) ==
    [label |-> label, isExpect |-> TRUE, held |-> value, throws |-> FALSE]

\* the statements that run: all up to and including the first that throws
Executed(stmts) ==
    LET bad == {i \in 1..Len(stmts) : stmts[i].throws}
    IN  IF bad = {} THEN stmts
        ELSE SubSeq(stmts, 1, CHOOSE i \in bad : \A j \in bad : i <= j)

IsExpect(st) == st.isExpect

\* One case: runs when its turn has come, issues req, receives r (or the
\* request rejects), runs stmts; the case passes when no statement throws.
RunCase(s, k, req, r, stmts) ==
    /\ apc = "cases"
    /\ suite = s
    /\ caseNo = k
    /\ requests' = Append(requests, req)
    /\ events' = events \o
          <<Issue(req.method \o " " \o req.url),
            IF r.arrived THEN Resolve(req.method \o " " \o req.url)
            ELSE Reject(req.method \o " " \o req.url)>>
    /\ response' = r
    /\ LET all    == <<Stmt("await request", r.arrived)>> \o stmts
           ex     == Executed(all)
           exps   == SelectSeq(ex, IsExpect)
           passed == \A i \in 1..Len(ex) : ~ex[i].throws
       IN  /\ expects' = expects \o
                 [i \in 1..Len(exps) |->
                    [case |-> CasesOf(s)[k], label |-> exps[i].label,
                     held |-> exps[i].held]]
           /\ caseResult' = Append(caseResult,
                 [case |-> CasesOf(s)[k], passed |-> passed])
           /\ IF passed /\ k < Len(CasesOf(s))
              THEN caseNo' = k + 1 /\ apc' = "cases"
              ELSE caseNo' = k /\ apc' = "afterAll"
    /\ UNCHANGED <<suite, request, token, issued, hookErrors, webVars>>

Post(url, auth) == [method |-> "POST", url |-> url, auth |-> auth]
Get(url, auth) == [method |-> "GET", url |-> url, auth |-> auth]

(***************************************************************************)
(* Order submission cases                                                  *)
(***************************************************************************)
Submit200Responses ==
    [arrived : {TRUE}, status : {200, 422}, json : BOOLEAN, hasData : BOOLEAN,
     quantity : {6, 5},
     package_id : {"merhaba-7days-1gb", "areeba-30days-3gbs"},
     description : {"6 sim merhaba-7days-1gb", ""},
     sims : {6, 5}]

\* Submit200Stmts without the check of the description
Submit200StmtsNoDescription(r) ==
    << Expect("status toBe 200", r.status = 200),
       Stmt("response.json", r.json),
       Stmt("responseBody.data", r.hasData),
       Expect("data.quantity toEqual 6", r.quantity = 6),
       Expect("data.package_id toEqual merhaba-7days-1gb",
              r.package_id = "merhaba-7days-1gb"),
       Expect("Object.values(data.sims).length toEqual 6", r.sims = 6) >>

Submit200Stmts(r) ==
    << Expect("status toBe 200", r.status = 200),
       Stmt("response.json", r.json),
       Stmt("responseBody.data", r.hasData),
       Expect("data.quantity toEqual 6", r.quantity = 6),
       Expect("data.package_id toEqual merhaba-7days-1gb",
              r.package_id = "merhaba-7days-1gb"),
       Expect("data.description toEqual 6 sim merhaba-7days-1gb",
              r.description = "6 sim merhaba-7days-1gb"),
       Expect("Object.values(data.sims).length toEqual 6", r.sims = 6) >>

SubmitOrder200 ==
    \/ RunCase("orders", 1, Post("orders", AuthHeader(token)), NoResponse, <<>>)
    \/ \E r \in Submit200Responses :
          RunCase("orders", 1, Post("orders", AuthHeader(token)), r,
                  Submit200Stmts(r))

StatusResponses == [arrived : {TRUE}, status : {200, 401, 422}]

\* Unauthenticated401 building its header like the other cases
Unauthenticated401WithToken ==
    \/ RunCase("orders", 2, Post("orders", AuthHeader(token)), NoResponse, <<>>)
    \/ \E r \in StatusResponses :
          RunCase("orders", 2, Post("orders", AuthHeader(token)), r,
                  << Expect("status toBe 401", r.status = 401) >>)

Unauthenticated401 ==
    \/ RunCase("orders", 2, Post("orders", "Bearer "), NoResponse, <<>>)
    \/ \E r \in StatusResponses :
          RunCase("orders", 2, Post("orders", "Bearer "), r,
                  << Expect("status toBe 401", r.status = 401) >>)

MalformedBody422 ==
    \/ RunCase("orders", 3, Post("orders", AuthHeader(token)), NoResponse, <<>>)
    \/ \E r \in StatusResponses :
          RunCase("orders", 3, Post("orders", AuthHeader(token)), r,
                  << Expect("status toBe 422", r.status = 422) >>)

ValidationResponses ==
    [arrived : {TRUE}, status : {422, 200}, json : BOOLEAN, hasData : BOOLEAN,
     package_id : {"The package id field is required.",
                   "The selected package is invalid.", Undefined},
     quantity : {"The quantity field is required.",
                 "The quantity may not be greater than 50.", Undefined},
     type : {"The selected type is invalid.", Undefined}]

MandatoryStmts(r) ==
    << Expect("status toBe 422", r.status = 422),
       Stmt("response.json", r.json),
       Stmt("responseBody.data", r.hasData),
       Expect("data.package_id toBe The package id field is required.",
              r.package_id = "The package id field is required."),
       Expect("data.quantity toBe The quantity field is required.",
              r.quantity = "The quantity field is required."),
       Expect("data.type toBe The selected type is invalid.",
              r.type = "The selected type is invalid.") >>

MandatoryField422 ==
    \/ RunCase("orders", 4, Post("orders", AuthHeader(token)), NoResponse, <<>>)
    \/ \E r \in ValidationResponses :
          RunCase("orders", 4, Post("orders", AuthHeader(token)), r,
                  MandatoryStmts(r))

\* QuantityStmts without the check of the quantity message
QuantityStmtsPackageOnly(r) ==
    << Expect("status toBe 422", r.status = 422),
       Stmt("response.json", r.json),
       Stmt("responseBody.data", r.hasData),
       Expect("data.package_id toBe The selected package is invalid.",
              r.package_id = "The selected package is invalid.") >>

QuantityStmts(r) ==
    << Expect("status toBe 422", r.status = 422),
       Stmt("response.json", r.json),
       Stmt("responseBody.data", r.hasData),
       Expect("data.package_id toBe The selected package is invalid.",
              r.package_id = "The selected package is invalid."),
       Expect("data.quantity toBe The quantity may not be greater than 50.",
              r.quantity = "The quantity may not be greater than 50.") >>

QuantityAndPackage422 ==
    \/ RunCase("orders", 5, Post("orders", AuthHeader(token)), NoResponse, <<>>)
    \/ \E r \in ValidationResponses :
          RunCase("orders", 5, Post("orders", AuthHeader(token)), r,
                  QuantityStmts(r))

(***************************************************************************)
(* eSIM listing cases                                                      *)
(***************************************************************************)
SimsValid200 ==
    \/ RunCase("sims", 1, Get("sims", AuthHeader(token)), NoResponse, <<>>)
    \/ \E r \in StatusResponses :
          RunCase("sims", 1, Get("sims", AuthHeader(token)), r,
                  << Expect("status toBe 200", r.status = 200) >>)

FirstLink(query) ==
    "https://sandbox-partners-api.airalo.com/v2/sims" \o query \o "&page=1"

LinksResponses(query) ==
    [arrived : {TRUE}, status : {200, 401}, json : BOOLEAN, hasLinks : BOOLEAN,
     first : {FirstLink(query),
              "https://sandbox-partners-api.airalo.com/v2/sims?page=1"}]

\* the three include=... cases share their body; only the query differs
IncludeCase(k, query) ==
    \/ RunCase("sims", k, Get("sims" \o query, AuthHeader(token)), NoResponse, <<>>)
    \/ \E r \in LinksResponses(query) :
          RunCase("sims", k, Get("sims" \o query, AuthHeader(token)), r,
                  << Stmt("response.json", r.json),
                     Stmt("responseBody.links", r.hasLinks),
                     Expect("links.first toEqual " \o FirstLink(query),
                            r.first = FirstLink(query)) >>)

SimsIncludeOrder == IncludeCase(2, "?include=order")

SimsIncludeOrderUser == IncludeCase(3, "?include=order.user")

SimsIncludeOrderStatus == IncludeCase(4, "?include=order.status")

\* most entries a listing response of the model carries
MaxEntries == 2

\* sequences over S of length up to MaxEntries
ListsOf(S) == UNION {[1..n -> S] : n \in 0..MaxEntries}

Iccids == {"894000000000010490", "894000000000010491"}

\* created_at of an entry as the JSON body gives it: the text of a date at
\* an instant before (1) or after (3) the instant the case runs (2), a text
\* that is not a date, null, or no such field
DateText(t) == [type |-> "string", date |-> TRUE, t |-> t]
NotADate == [type |-> "string", date |-> FALSE, t |-> 0]
NullCreatedAt == [type |-> "null", date |-> FALSE, t |-> 0]
NoCreatedAt == [type |-> "undefined", date |-> FALSE, t |-> 0]

CreatedAts == {DateText(1), DateText(3), NotADate, NullCreatedAt, NoCreatedAt}

\* a new Date(v) that takes null for an invalid date
NewDateStrict(v) ==
    IF v.type = "string" THEN [valid |-> v.date, t |-> v.t]
    ELSE [valid |-> FALSE, t |-> 0]

\* new Date(v): the instant a date text denotes; Invalid Date for any other
\* text and for undefined; null is converted to the number 0, the epoch
NewDate(v) ==
    IF v.type = "string" THEN [valid |-> v.date, t |-> v.t]
    ELSE IF v.type = "null" THEN [valid |-> TRUE, t |-> 0]
    ELSE [valid |-> FALSE, t |-> 0]

\* an entry of responseBody.data, reduced to the one field the case reads
IccidEntries == [iccid : Iccids]

DatedEntries == [created_at : CreatedAts]

\* a body that cannot be parsed, or that has no data, has no entries
ListResponses(entries) ==
    {r \in [arrived : {TRUE}, status : {200}, json : BOOLEAN, hasData : BOOLEAN,
            data : ListsOf(entries)] :
        (~r.json \/ ~r.hasData) => r.data = <<>>}

SimsLimit ==
    \/ RunCase("sims", 5, Get("sims?include=order&limit=2", AuthHeader(token)),
               NoResponse, <<>>)
    \/ \E r \in ListResponses(IccidEntries) :
          RunCase("sims", 5, Get("sims?include=order&limit=2", AuthHeader(token)), r,
                  << Stmt("response.json", r.json),
                     Stmt("Object.values(responseBody.data)", r.hasData),
                     Expect("length toEqual 2", Len(r.data) = 2) >>)

PageResponses ==
    [arrived : {TRUE}, status : {200}, json : BOOLEAN, hasMeta : BOOLEAN,
     current_page : {1, 2}]

SimsPage ==
    \/ RunCase("sims", 6, Get("sims?page=2", AuthHeader(token)), NoResponse, <<>>)
    \/ \E r \in PageResponses :
          RunCase("sims", 6, Get("sims?page=2", AuthHeader(token)), r,
                  << Stmt("response.json", r.json),
                     Stmt("responseBody.meta", r.hasMeta),
                     Expect("meta.current_page toEqual 2", r.current_page = 2) >>)

\* createdDateArray[randomIndex]: undefined when the array is empty
Sampled(list, i) ==
    IF list = <<>> THEN NoCreatedAt ELSE list[i].created_at

\* randomIndex = Math.floor(Math.random() * length); new Date(createdDate)
\* .toISOString() raises a RangeError for an invalid date; date2 is the
\* instant the case runs; expect(date1 <= date2) has no matcher.
CreatedDateStmts(r, i) ==
    << Stmt("response.json", r.json),
       Stmt("Object.values(responseBody.data)", r.hasData),
       Stmt("new Date(createdDate).toISOString",
            NewDate(Sampled(r.data, i)).valid),
       ExpectNoMatcher("date1 <= date2", NewDate(Sampled(r.data, i)).t <= 2) >>

SimsCreatedDate ==
    \/ RunCase("sims", 7,
               Get("sims?filter[created_at]=2024-01-01 - 2024-10-13",
                   AuthHeader(token)), NoResponse, <<>>)
    \/ \E r \in ListResponses(DatedEntries) :
          \E i \in IF r.data = <<>> THEN {1} ELSE 1..Len(r.data) :
             RunCase("sims", 7,
                     Get("sims?filter[created_at]=2024-01-01 - 2024-10-13",
                         AuthHeader(token)),
                     r @@ [randomIndex |-> i], CreatedDateStmts(r, i))

\* iccid[0]: undefined when the array is empty
FirstIccid(list) == IF list = <<>> THEN Undefined ELSE list[1].iccid

SimsIccid ==
    \/ RunCase("sims", 8, Get("sims?filter[iccid]=894000000000010490",
                              AuthHeader(token)), NoResponse, <<>>)
    \/ \E r \in ListResponses(IccidEntries) :
          RunCase("sims", 8, Get("sims?filter[iccid]=894000000000010490",
                                 AuthHeader(token)), r,
                  << Stmt("response.json", r.json),
                     Stmt("Object.values(responseBody.data)", r.hasData),
                     Expect("iccid[0] toEqual 894000000000010490",
                            FirstIccid(r.data) = "894000000000010490") >>)

LimitErrorResponses ==
    [arrived : {TRUE}, status : {422, 200}, json : BOOLEAN, hasData : BOOLEAN,
     limit : {"The limit must be an integer.", Undefined}]

SimsMalformedLimit422 ==
    \/ RunCase("sims", 9, Get("sims?include=order&limit=ABC", AuthHeader(token)),
               NoResponse, <<>>)
    \/ \E r \in LimitErrorResponses :
          RunCase("sims", 9, Get("sims?include=order&limit=ABC", AuthHeader(token)), r,
                  << Stmt("response.json", r.json),
                     Expect("status toBe 422", r.status = 422),
                     Stmt("responseBody.data", r.hasData),
                     Expect("data.limit toEqual The limit must be an integer.",
                            r.limit = "The limit must be an integer.") >>)

NextApi ==
    \/ BeforeAll
    \/ SubmitOrder200
    \/ Unauthenticated401
    \/ MalformedBody422
    \/ MandatoryField422
    \/ QuantityAndPackage422
    \/ SimsValid200
    \/ SimsIncludeOrder
    \/ SimsIncludeOrderUser
    \/ SimsIncludeOrderStatus
    \/ SimsLimit
    \/ SimsPage
    \/ SimsCreatedDate
    \/ SimsIccid
    \/ SimsMalformedLimit422
    \/ AfterAll

(***************************************************************************)
(* Specifications.  The web scenario and an API worker are separate        *)
(* processes of the runner; each specification runs one and leaves the     *)
(* other's variables at their initial values.                              *)
(***************************************************************************)
WebSpec == InitWeb /\ [][NextWeb]_vars

ApiSpec == InitApi /\ [][NextApi]_vars

\* a process of the runner executes the web scenario or one of the API suites
InitAny == InitWeb \/ InitApi

NextAny == NextWeb \/ NextApi

AnySpec == InitAny /\ [][NextAny]_vars

(***************************************************************************)
(* The five getters applied to one element text: the page shows text in    *)
(* each of the five elements and the scenario's reads run in their order.  *)
(***************************************************************************)
MaxPad == 2

Blank == {" ", "\n"}

\* the whitespace strings of at most n characters
RECURSIVE Pads(_)
Pads(n) ==
    IF n = 0 THEN {""}
    ELSE LET shorter == Pads(n - 1)
         IN  shorter \cup {p \o b : p \in shorter, b \in Blank}

Words ==
    { <<"1", "GB">>, <<"11", "GB">>, <<"0.1", "GB">>, <<"7", "Days">>,
      <<"Moshi", "Moshi">>, <<"Japan", "Korea">>, <<"$4.50", "USD">> }

\* two words with whitespace before, between and after them
Texts ==
    {a \o w[1] \o b \o w[2] \o c : a \in Pads(MaxPad), b \in Pads(MaxPad),
                                  c \in Pads(MaxPad), w \in Words}

InitText ==
    /\ wpc = "title of text"
    /\ isHeadless \in BOOLEAN
    /\ calls = <<>>
    /\ \E text \in Texts :
          content = [f \in {Fields[i] : i \in 1..Len(Fields)} |-> DomText(text)]
    /\ title = JsUndefined
    /\ coverage = JsUndefined
    /\ data = JsUndefined
    /\ validity = JsUndefined
    /\ price = JsUndefined
    /\ assertionErrors = <<>>
    /\ evaluated = <<>>
    /\ thrown = <<>>
    /\ homePage = 0
    /\ describeAssertionErrors = <<>>
    /\ run = 1
    /\ suite = "orders"
    /\ apc = "idle"
    /\ caseNo = 1
    /\ request = "undefined"
    /\ token = "undefined"
    /\ issued = "undefined"
    /\ response = [arrived |-> FALSE]
    /\ requests = <<>>
    /\ expects = <<>>
    /\ caseResult = <<>>
    /\ hookErrors = <<>>
    /\ events = <<>>

textFrame == <<isHeadless, calls, content, assertionErrors, evaluated, thrown,
               homePage, describeVars, apiVars, events>>

TitleOfText ==
    /\ wpc = "title of text"
    /\ title' = TitleText(content["title"])
    /\ wpc' = "coverage of text"
    /\ UNCHANGED <<coverage, data, validity, price, textFrame>>

CoverageOfText ==
    /\ wpc = "coverage of text"
    /\ coverage' = CoverageText(content["coverage"])
    /\ wpc' = "data of text"
    /\ UNCHANGED <<title, data, validity, price, textFrame>>

DataOfText ==
    /\ wpc = "data of text"
    /\ CanReplace(content["data"])
    /\ data' = DataText(content["data"])
    /\ wpc' = "validity of text"
    /\ UNCHANGED <<title, coverage, validity, price, textFrame>>

ValidityOfText ==
    /\ wpc = "validity of text"
    /\ CanReplace(content["validity"])
    /\ validity' = ValidityText(content["validity"])
    /\ wpc' = "price of text"
    /\ UNCHANGED <<title, coverage, data, price, textFrame>>

PriceOfText ==
    /\ wpc = "price of text"
    /\ price' = PriceText(content["price"])
    /\ wpc' = "text read"
    /\ UNCHANGED <<title, coverage, data, validity, textFrame>>

NextText ==
    \/ TitleOfText
    \/ CoverageOfText
    \/ DataOfText
    \/ ValidityOfText
    \/ PriceOfText

TextSpec == InitText /\ [][NextText]_vars

(***************************************************************************)
(* Properties of the web scenario (checked under WebSpec)                  *)
(***************************************************************************)
FieldSet == {Fields[i] : i \in 1..Len(Fields)}

\* the golden fixture
Golden == [f \in FieldSet |->
             CASE f = "title"    -> "Moshi Moshi"
               [] f = "coverage" -> "Japan"
               [] f = "data"     -> "1 GB"
               [] f = "validity" -> "7 Days"
               [] f = "price"    -> "$4.50"]

\* the name each entry starts with
Label == [f \in FieldSet |->
             CASE f = "title"    -> "Package Title"
               [] f = "coverage" -> "Package Coverage"
               [] f = "data"     -> "Package Data"
               [] f = "validity" -> "Package Validity"
               [] f = "price"    -> "Package Price"]

Actual(f) ==
    CASE f = "title"    -> title
      [] f = "coverage" -> coverage
      [] f = "data"     -> data
      [] f = "validity" -> validity
      [] f = "price"    -> price

Rank(f) == CHOOSE i \in 1..Len(Fields) : Fields[i] = f

\* all five field values have been read (price is read last)
ReadsDone == price # JsUndefined

WebTerminal == wpc \in {"passed", "failed"}

Mismatch(f) == Actual(f) # JsStr(Golden[f])

Checked(f) == \E i \in 1..Len(evaluated) : evaluated[i] = f

StartsWith(str, pre) == Len(str) >= Len(pre) /\ SubSeq(str, 1, Len(pre)) = pre

Contains(str, pat) == IndexOf(str, pat) > 0

Names(entry, f) == StartsWith(entry, Label[f] \o " ")

EntriesNaming(f) ==
    Cardinality({i \in 1..Len(assertionErrors) : Names(assertionErrors[i], f)})

\* the run ended by the report thrown at the end of the test
SoftFailure ==
    wpc = "failed" /\ thrown # <<>> /\ thrown[Len(thrown)].kind = "Error"

\* number of checks that precede a position of the test body
ChecksBefore(pc) ==
    CASE pc = "checkTitle"    -> 0
      [] pc = "checkCoverage" -> 1
      [] pc = "checkData"     -> 2
      [] pc = "checkValidity" -> 3
      [] pc = "checkPrice"    -> 4
      [] OTHER                -> 5

\* C1: once the five values have been read, the checks are evaluated in the
\* order title, coverage, data, validity, price without a gap, whatever the
\* outcome of the earlier ones: at every position after the reads the checks
\* evaluated so far are exactly those that precede the position, and a run
\* that has ended has evaluated all five.
C1_AllChecksEvaluated ==
    ReadsDone => evaluated = SubSeq(Fields, 1, ChecksBefore(wpc))

\* a run that ended after its first check mismatched and its last matched
C1_Witness ==
    /\ WebTerminal /\ ReadsDone
    /\ Mismatch("title") /\ ~Mismatch("price")
    /\ Checked("price")

\* C2 (as claimed): a run passes if and only if its failure sequence is
\* empty at the end, also when a page-abstraction call raises.
C2_PassIffEmpty ==
    WebTerminal => (wpc = "passed" <=> assertionErrors = <<>>)

\* C2 (amended): a passing run has an empty sequence; a run in which no
\* page-abstraction call raises passes iff its sequence is empty at the end;
\* a run in which a page-abstraction call raises fails with an empty sequence.
C2_PassIffEmptyUnlessRaised ==
    WebTerminal =>
        /\ wpc = "passed" => assertionErrors = <<>>
        /\ ReadsDone => (wpc = "passed" <=> assertionErrors = <<>>)
        /\ ~ReadsDone => (wpc = "failed" /\ assertionErrors = <<>>)

C2_Witness == wpc = "passed" /\ ReadsDone /\ assertionErrors = <<>>

\* C3: the report is the only error the test body raises by itself, it is
\* raised at most once and only after all five checks were evaluated; when a
\* field mismatches the run ends failed by exactly one report raised at the
\* end, whose message contains every recorded entry.
C3_FailsOnceWithEveryEntry ==
    /\ Len(thrown) <= 1
    /\ \A i \in 1..Len(thrown) :
          thrown[i].kind = "Error" =>
              thrown[i].at = "finalize" /\ evaluated = Fields
    /\ (WebTerminal /\ ReadsDone /\ \E f \in FieldSet : Mismatch(f)) =>
          /\ SoftFailure
          /\ assertionErrors # <<>>
          /\ \A i \in 1..Len(assertionErrors) :
                Contains(thrown[1].message, assertionErrors[i])

C3_Witness == SoftFailure /\ Len(assertionErrors) >= 3

\* C4: after the reads the sequence holds exactly one entry for every field
\* checked so far whose value differs from the golden value and none for any
\* other field, so a matching check adds nothing; when all five match, the
\* run passes and raises nothing.
C4_OneEntryPerMismatch ==
    ReadsDone =>
        /\ \A f \in FieldSet :
              EntriesNaming(f) = IF Checked(f) /\ Mismatch(f) THEN 1 ELSE 0
        /\ Len(assertionErrors) =
              Cardinality({f \in FieldSet : Checked(f) /\ Mismatch(f)})
        /\ (wpc \in {"finalize", "passed", "failed"}) => evaluated = Fields
        /\ (WebTerminal /\ \A f \in FieldSet : ~Mismatch(f)) =>
              (wpc = "passed" /\ thrown = <<>>)

C4_Witness ==
    /\ WebTerminal /\ ReadsDone
    /\ Mismatch("coverage") /\ Mismatch("validity")
    /\ ~Mismatch("title") /\ ~Mismatch("data") /\ ~Mismatch("price")
    /\ Len(assertionErrors) = 2

FieldOf(entry) == CHOOSE f \in FieldSet : Names(entry, f)

\* C5: entries appear in the order title, coverage, data, validity, price,
\* in the sequence and in the message of the report.
C5_EntriesInEvaluationOrder ==
    \A i, j \in 1..Len(assertionErrors) :
        i < j =>
            /\ Rank(FieldOf(assertionErrors[i])) < Rank(FieldOf(assertionErrors[j]))
            /\ SoftFailure =>
                  IndexOf(thrown[1].message, assertionErrors[i])
                      < IndexOf(thrown[1].message, assertionErrors[j])

C5_Witness ==
    /\ SoftFailure
    /\ Mismatch("title") /\ Mismatch("price")
    /\ Len(assertionErrors) >= 2

\* the line the specification gives for a field, gap being what separates
\* the field name from 'Assertion Failed'
EntryLine(f, gap) ==
    Label[f] \o gap \o "Assertion Failed: Actual Field is \""
        \o TemplateString(Actual(f))
        \o "\" and Expected Field is \"" \o Golden[f] \o "\""

\* the lines of the mismatching fields, in field order
RECURSIVE LinesFrom(_, _)
LinesFrom(i, titleGap) ==
    IF i > Len(Fields) THEN <<>>
    ELSE LET f == Fields[i]
         IN  (IF Mismatch(f)
              THEN <<EntryLine(f, IF f = "title" THEN titleGap ELSE " ")>>
              ELSE <<>>) \o LinesFrom(i + 1, titleGap)

\* C6 (as claimed): the message of the report is exactly the entries joined
\* by newline, each with a single space after the field name.
C6_MessageIsJoinedEntries ==
    SoftFailure => thrown[1].message = Join(LinesFrom(1, " "), "\n")

\* C6 (amended): the message is the header line 'Soft Assertion Failures:'
\* followed by the entries joined by newline; every line has a single space
\* after the field name except the Package Title line, which has two.
C6_MessageIsHeaderAndEntries ==
    SoftFailure =>
        thrown[1].message =
            "Soft Assertion Failures:" \o "\n" \o Join(LinesFrom(1, "  "), "\n")

C6_Witness ==
    /\ SoftFailure
    /\ Mismatch("title") /\ Mismatch("data")
    /\ title = JsNull

Missing(c) == c = DomNull \/ c = DomText("")

TimedOut == \E i \in 1..Len(thrown) : thrown[i].kind = "TimeoutError"

\* C7 (as claimed): a field whose element text is null or empty is a normal
\* mismatch: nothing raises before the end of the test, the other fields are
\* still checked and the field gets its one entry.
C7_MissingTextIsMismatch ==
    \A f \in FieldSet :
        Missing(content[f]) =>
            /\ \A i \in 1..Len(thrown) : thrown[i].kind # "TypeError"
            /\ (WebTerminal /\ ~TimedOut) =>
                  (SoftFailure /\ evaluated = Fields /\ EntriesNaming(f) = 1)

(***************************************************************************)
(* Properties of the API suites (checked under ApiSpec)                    *)
(***************************************************************************)
\* C8 (as claimed): once afterAll has run, the request context is not left
\* open and afterAll has not raised, whatever happened in beforeAll and in
\* the cases.
C8_TeardownReleasesContext ==
    apc = "done" =>
        /\ request # "open"
        /\ \A i \in 1..Len(hookErrors) : hookErrors[i].hook # "afterAll"

\* C9: the token changes only in beforeAll and only from unset; while the
\* cases run it is the access_token the token exchange returned, and every
\* request that carries a token carries that one.
C9_TokenWrittenOnceInSetup ==
    /\ [][token' # token => (apc = "beforeAll" /\ token = Undefined)]_vars
    /\ [](apc \in {"cases", "afterAll", "done"} => token = issued)
    /\ [](\A i \in 1..Len(requests) :
            requests[i].auth \notin {"none", "Bearer "} =>
                requests[i].auth = "Bearer " \o issued)

C9_Witness ==
    /\ apc = "done"
    /\ token = "tokB"
    /\ Len(caseResult) >= 2
    /\ \E i \in 1..Len(requests) : requests[i].auth = "Bearer tokB"

\* C10 (as claimed): in every case an expectation that does not hold is the
\* last one the case evaluates, and the case fails.
C10_FirstFailureAborts ==
    \A i \in 1..Len(expects) :
        (expects[i].case # "beforeAll" /\ ~expects[i].held) =>
            /\ i = Len(expects)
            /\ \E j \in 1..Len(caseResult) :
                  caseResult[j].case = expects[i].case /\ ~caseResult[j].passed


\* the case that ran last; response is the response it received
LastCase == caseResult[Len(caseResult)]

LastCaseIs(name) == caseResult # <<>> /\ LastCase.case = name

\* C11 (as claimed): the date-range filter case passes only if the sampled
\* entry's created_at is not later than the instant the case runs.
C11_DateFilterValidated ==
    (LastCaseIs("created date") /\ LastCase.passed) =>
        NewDate(Sampled(response.data, response.randomIndex)).t <= 2

\* C12 (as claimed): the quantity > 50 case passes only if the status is
\* 422 and the messages of the response are exactly the package_id and the
\* quantity message: a response with a further field message fails it.
C12_ExactMessageSet ==
    (LastCaseIs("quantity 422") /\ LastCase.passed) =>
        /\ response.status = 422
        /\ response.package_id = "The selected package is invalid."
        /\ response.quantity = "The quantity may not be greater than 50."
        /\ response.type = Undefined

\* C12 (amended): the case passes if and only if the status is 422 and
\* data.package_id and data.quantity are the two messages; any further field
\* message of the response is not examined.
C12_TwoMessagesChecked ==
    LastCaseIs("quantity 422") =>
        (LastCase.passed <=>
            /\ response.arrived
            /\ response.status = 422
            /\ response.json /\ response.hasData
            /\ response.package_id = "The selected package is invalid."
            /\ response.quantity = "The quantity may not be greater than 50.")

C12_Witness ==
    /\ LastCaseIs("quantity 422") /\ LastCase.passed
    /\ response.type = "The selected type is invalid."

\* C13: the successful order case passes if and only if the response has
\* status 200, data.quantity 6, data.package_id "merhaba-7days-1gb",
\* data.description "6 sim merhaba-7days-1gb" and six sims.
C13_SuccessfulOrderChecked ==
    LastCaseIs("submit 200") =>
        (LastCase.passed <=>
            /\ response.arrived
            /\ response.status = 200
            /\ response.json /\ response.hasData
            /\ response.quantity = 6
            /\ response.package_id = "merhaba-7days-1gb"
            /\ response.description = "6 sim merhaba-7days-1gb"
            /\ response.sims = 6)

C13_Witness == LastCaseIs("submit 200") /\ LastCase.passed /\ apc = "cases"

\* C14: the request of the unauthenticated case carries 'Bearer ' with an
\* empty value whatever token setup acquired, never that token, and the case
\* passes if and only if the status is 401.  (Request i + 1 is the request
\* of the i-th case run: the first request is the token exchange.)
C14_EmptyBearerWhateverToken ==
    \A i \in 1..Len(caseResult) :
        caseResult[i].case = "unauthenticated 401" =>
            /\ requests[i + 1].url = "orders"
            /\ requests[i + 1].auth = "Bearer "
            /\ requests[i + 1].auth # "Bearer " \o token
            /\ i = Len(caseResult) =>
                  (caseResult[i].passed <=>
                      (response.arrived /\ response.status = 401))

C14_Witness ==
    /\ LastCaseIs("unauthenticated 401") /\ LastCase.passed
    /\ token = "tokA"


\* the driver calls of a complete run, in the order the scenario lists them
ExpectedCalls(headless) ==
    <<"goto /", "click button ACCEPT">>
    \o (IF headless THEN <<>>
        ELSE <<"waitForSelector wzrk-confirm", "click button ALLOW">>)
    \o <<"click EUR-header-language", "click USD-currency-select",
         "click UPDATE-button",
         "click search-input", "fill search-input", "click li country",
         "click link Moshi Moshi",
         "textContent Moshi Moshi", "textContent Japan", "textContent 1 GB",
         "textContent 7 Days", "textContent $4.50 USD">>

IsPrefix(s, t) == Len(s) <= Len(t) /\ s = SubSeq(t, 1, Len(s))

Called(step) == \E i \in 1..Len(calls) : calls[i] = step

IsRead(step) == StartsWith(step, "textContent ")

\* C15: the page actions occur in the order navigate, accept privacy,
\* (allow notifications), change currency, select country, select package,
\* the five reads, then the checks; allowNotifications is invoked if and only
\* if the browser is not headless; no read precedes the package selection.
C15_ActionsInScenarioOrder ==
    /\ IsPrefix(calls, ExpectedCalls(isHeadless))
    /\ evaluated # <<>> => calls = ExpectedCalls(isHeadless)
    /\ Called("waitForSelector wzrk-confirm") => ~isHeadless
    /\ (Called("click EUR-header-language") /\ ~isHeadless) =>
           Called("click button ALLOW")
    /\ \A i \in 1..Len(calls) :
          IsRead(calls[i]) =>
             \E j \in 1..(i - 1) : calls[j] = "click link Moshi Moshi"

C15_Witness ==
    /\ ~isHeadless
    /\ Called("click button ALLOW")
    /\ Len(evaluated) = 5


(***************************************************************************)
(* Properties of the getters' text cleanup (checked under TextSpec)        *)
(***************************************************************************)
\* str with every run of whitespace replaced by one space
RECURSIVE Squeeze(_)
Squeeze(str) ==
    IF str = "" THEN ""
    ELSE LET init == Squeeze(SubSeq(str, 1, Len(str) - 1))
             last == CharAt(str, Len(str))
         IN  IF last \notin WhiteSpace THEN init \o last
             ELSE IF init # "" /\ CharAt(init, Len(init)) = " " THEN init
             ELSE init \o " "

\* whitespace runs collapsed to single spaces, then trimmed
Collapse(str) == Trim(Squeeze(str))

\* the characters of str that are not whitespace, in their order
RECURSIVE Visible(_)
Visible(str) ==
    IF str = "" THEN ""
    ELSE LET init == Visible(SubSeq(str, 1, Len(str) - 1))
             last == CharAt(str, Len(str))
         IN  IF last \in WhiteSpace THEN init ELSE init \o last

\* out is str without its first occurrence of pat (str itself if none)
IsWithoutFirst(out, str, pat) ==
    LET n    == Len(pat)
        at   == {i \in 1..(Len(str) - n + 1) : SubSeq(str, i, i + n - 1) = pat}
    IN  IF at = {} THEN out = str
        ELSE \E i \in at :
                /\ \A j \in at : i <= j
                /\ out = SubSeq(str, 1, i - 1) \o SubSeq(str, i + n, Len(str))

\* out is a run of digits, one space, a run of word characters
IsDigitsSpaceWord(out) ==
    \E k \in 2..(Len(out) - 1) :
        /\ CharAt(out, k) = " "
        /\ AllIn(SubSeq(out, 1, k - 1), Digits)
        /\ AllIn(SubSeq(out, k + 1, Len(out)), WordChars)

WasRead(f) == Actual(f) # JsUndefined

NumberChars == Digits \cup {"."}

Letters == WordChars \ (Digits \cup {"_"})

NumberOf(text) ==
    LET core == Trim(text)
    IN  SubSeq(core, 1, PrefixLen(core, NumberChars))

UnitOf(text) ==
    LET core == Trim(text)
    IN  Trim(SubSeq(core, PrefixLen(core, NumberChars) + 1, Len(core)))

IsNumberAndUnit(text) ==
    /\ NumberOf(text) # ""
    /\ UnitOf(text) # ""
    /\ AllIn(UnitOf(text), Letters)

TokenExchanges == {i \in 1..Len(requests) : requests[i].url = "token"}

\* C19: nothing is retried.  In a run of the web scenario every driver call
\* is issued at most once and a call that times out is the last one issued:
\* the run has failed.  In an API worker the token exchange is requested at
\* most once, every case runs at most once and issues one request, and a
\* failed hook or case is followed by no further request.
C19_NothingRetried ==
    /\ \A i, j \in 1..Len(calls) : i < j => calls[i] # calls[j]
    /\ Len(thrown) <= 1
    /\ thrown # <<>> => wpc = "failed"
    /\ TimedOut => calls[Len(calls)] = thrown[1].message
    /\ Cardinality(TokenExchanges) <= 1
    /\ Len(requests) = Cardinality(TokenExchanges) + Len(caseResult)
    /\ \A i, j \in 1..Len(caseResult) :
          i < j => caseResult[i].case # caseResult[j].case
    /\ \A i \in 1..Len(caseResult) :
          ~caseResult[i].passed => (i = Len(caseResult) /\ apc # "cases")
    /\ (\E i \in 1..Len(hookErrors) : hookErrors[i].hook = "beforeAll") =>
          (caseResult = <<>> /\ apc # "cases")

C19_Witness ==
    /\ wpc = "failed"
    /\ TimedOut
    /\ thrown[1].message = "click UPDATE-button"

\* C20: the runs share no state they modify.  The describe-level
\* assertionErrors array is never modified; a run starts with an empty array
\* of its own, and every entry in it was recorded by a check this run has
\* evaluated; the page object a run drives is the one it created; the API
\* cases change neither the token nor the request context.
C20_RunsShareNothing ==
    /\ [](describeAssertionErrors = <<>>)
    /\ [](wpc = "goto" => assertionErrors = <<>>)
    /\ [](\A i \in 1..Len(assertionErrors) :
             \E f \in FieldSet : Checked(f) /\ Names(assertionErrors[i], f))
    /\ [](Called("click button ACCEPT") => homePage = run)
    /\ [][describeAssertionErrors' = describeAssertionErrors]_vars
    /\ [][apc = "cases" => UNCHANGED <<token, request>>]_vars

C20_Witness ==
    /\ run = 2
    /\ wpc = "failed"
    /\ Len(assertionErrors) = 1


IssuesIn(k) == {i \in 1..k : events[i].ev = "issue"}

\* the calls issued and not yet settled after the first k events
Outstanding(k) == Cardinality(IssuesIn(k)) - (k - Cardinality(IssuesIn(k)))

\* C21: within a scenario the operations are strictly sequential.  At any
\* moment at most one page action or HTTP request is outstanding, and the
\* event after the issue of a call is that call settling: nothing else
\* starts in between.  Every driver call and every request is in the log.
C21_StrictlySequential ==
    /\ Outstanding(Len(events)) = 0
    /\ \A i \in 1..(Len(events) - 1) :
          ~(events[i].ev = "issue" /\ events[i + 1].ev = "issue")
    /\ \A i \in 1..Len(events) :
          events[i].ev # "issue" => (i > 1 /\ events[i - 1].ev = "issue")
    /\ \A i \in 1..Len(events) :
          events[i].ev = "issue" =>
             /\ i < Len(events)
             /\ events[i + 1].ev \in {"resolve", "reject"}
             /\ events[i + 1].op = events[i].op
    /\ Cardinality(IssuesIn(Len(events))) = Len(calls) + Len(requests)

C21_Witness ==
    /\ wpc = "passed"
    /\ ~isHeadless
    /\ Len(events) = 2 * Len(ExpectedCalls(FALSE))


\* the driver calls that rejected (element not found, navigation failed)
Rejections == {i \in 1..Len(events) : events[i].ev = "reject"}

\* C22: a failure raised by a page call of the web scenario is not caught.
\* The run has failed with that failure, which is the only error; the
\* rejected call is the last call issued; no field check has been evaluated,
\* no entry recorded and no soft-assertion report is among the errors.
C22_PageFailureTerminatesRun ==
    (wpc # "idle" /\ Rejections # {}) =>
        /\ Rejections = {Len(events)}
        /\ wpc = "failed"
        /\ Len(thrown) = 1
        /\ thrown[1].kind = "TimeoutError"
        /\ thrown[1].message = events[Len(events)].op
        /\ calls[Len(calls)] = events[Len(events)].op
        /\ evaluated = <<>>
        /\ assertionErrors = <<>>
        /\ \A i \in 1..Len(thrown) :
              ~StartsWith(thrown[i].message, "Soft Assertion Failures:")

C22_Witness ==
    /\ Rejections # {}
    /\ thrown[1].message = "textContent 7 Days"
    /\ wpc = "failed"


CurrencyClicks ==
    <<"click EUR-header-language", "click USD-currency-select",
      "click UPDATE-button">>

IsCurrencyEvent(e) == \E k \in 1..3 : e.op = CurrencyClicks[k]

CurrencyEvents == SelectSeq(events, IsCurrencyEvent)

\* what the log shows of changeCurrency when its first k clicks completed
ClicksCompleted(k) ==
    [i \in 1..(2 * k) |->
        [ev |-> IF i % 2 = 1 THEN "issue" ELSE "resolve",
         op |-> CurrencyClicks[(i + 1) \div 2]]]

\* C23: changeCurrency clicks the EUR currency header, the USD option and
\* the UPDATE button, in this order and nothing else in between; a click is
\* issued only when the one before has completed; when a click raises, the
\* run has failed and the clicks after it are not issued.
C23_ThreeClicksInOrder ==
    /\ \/ CurrencyEvents = <<>>
       \/ CurrencyEvents = ClicksCompleted(3)
       \/ \E k \in 0..2 :
             /\ CurrencyEvents = ClicksCompleted(k) \o
                   << [ev |-> "issue", op |-> CurrencyClicks[k + 1]],
                      [ev |-> "reject", op |-> CurrencyClicks[k + 1]] >>
             /\ wpc = "failed"
             /\ events[Len(events)] = CurrencyEvents[Len(CurrencyEvents)]
    /\ \A i, j \in 1..Len(events) :
          (i < j /\ IsCurrencyEvent(events[i]) /\ IsCurrencyEvent(events[j])) =>
             \A m \in i..j : IsCurrencyEvent(events[m])
    /\ Called("click search-input") => CurrencyEvents = ClicksCompleted(3)

C23_Witness ==
    /\ wpc = "failed"
    /\ Len(CurrencyEvents) = 4
    /\ CurrencyEvents[4] = [ev |-> "reject", op |-> "click USD-currency-select"]


(***************************************************************************)
(* Properties of setup and of the date-filter case (checked under ApiSpec) *)
(***************************************************************************)
\* the status check of setup has been evaluated
StatusChecked == expects # <<>> /\ expects[1].case = "beforeAll"

\* C24: setup stores the token only after it has verified that the status of
\* the token-exchange response is 200.  When the status is not 200, setup
\* has failed at that check, the token is unset, no case has run and the
\* token exchange is the only request: none carries 'Bearer <token>'.
C24_TokenStoredAfterStatusVerified ==
    /\ token # Undefined => (StatusChecked /\ expects[1].held)
    /\ (StatusChecked /\ ~expects[1].held) =>
          /\ response.status # 200
          /\ token = Undefined
          /\ hookErrors # <<>>
          /\ hookErrors[1] = [hook |-> "beforeAll", at |-> "expect status"]
          /\ apc \in {"afterAll", "done"}
          /\ caseResult = <<>>
          /\ Len(requests) = 1
          /\ \A i \in 1..Len(requests) : ~StartsWith(requests[i].auth, "Bearer ")

C24_Witness ==
    /\ StatusChecked /\ ~expects[1].held
    /\ response.status = 401
    /\ response.json /\ response.hasData
    /\ response.access_token = "tokA"
    /\ apc = "done"


\* the entry the last case sampled
SampledCreatedAt == Sampled(response.data, response.randomIndex)

\* the body of the last response could be read up to its data
DataRead == response.arrived /\ response.json /\ response.hasData

IsParseableDate(v) == v.type = "string" /\ v.date

\* C25 (as claimed): the date-filter case raises, and fails, whenever the
\* response has no entry or the sampled created_at is not a parseable date,
\* and does not raise when the sampled created_at is a parseable date.
C25_RaisesUnlessParseable ==
    (LastCaseIs("created date") /\ DataRead) =>
        (LastCase.passed <=>
            (response.data # <<>> /\ IsParseableDate(SampledCreatedAt)))

\* C25 (amended): it raises when the response has no entry, when the sampled
\* entry has no created_at, and when created_at is a text that is not a
\* date; a created_at of null is converted to the epoch and does not raise,
\* like a parseable date.
C25_RaisesUnlessParseableOrNull ==
    (LastCaseIs("created date") /\ DataRead) =>
        (LastCase.passed <=>
            /\ response.data # <<>>
            /\ \/ IsParseableDate(SampledCreatedAt)
               \/ SampledCreatedAt = NullCreatedAt)

C25_Witness ==
    /\ LastCaseIs("created date") /\ DataRead
    /\ Len(response.data) = 2
    /\ SampledCreatedAt = NullCreatedAt
    /\ LastCase.passed

====
